---- MODULE Spec2Model ----
(***************************************************************************)
(* Pagination of the user listing routes (userUploadsGet, userPinsGet) and *)
(* the Link header generator getLinkHeader.                                *)
(*                                                                         *)
(* Strings are sequences of characters; a character is a digit 0..9 or the *)
(* letter x (LetterX).  Numbers cross the URL as decimal strings, so the   *)
(* number -> string -> number conversions are modelled as such.            *)
(***************************************************************************)
EXTENDS Integers, Sequences, FiniteSets, TLC

VARIABLES collection, route, start, query, pc, response, dbResult, seen,
          requests, lhArgs, lhOut, login

vars == <<collection, route, start, query, pc, response, dbResult, seen,
          requests, lhArgs, lhOut, login>>

(* ------------------------------ bounds --------------------------------- *)
MaxItems == 3
MaxTime == 3
MaxPage == 3
MaxSize == 2
MaxRequests == MaxItems + 2

(* ------------------------- strings and numbers ------------------------- *)
LetterX == 10
IsDigit(c) == c \in 0..9

RECURSIVE ToStr(_)
ToStr(n) == IF n < 10 THEN <<n>> ELSE Append(ToStr(n \div 10), n % 10)

RECURSIVE DigitPrefix(_)
DigitPrefix(s) ==
  IF s = <<>> \/ ~IsDigit(Head(s)) THEN <<>>
  ELSE <<Head(s)>> \o DigitPrefix(Tail(s))

RECURSIVE DigitsValue(_)
DigitsValue(d) ==
  IF d = <<>> THEN 0
  ELSE 10 * DigitsValue(SubSeq(d, 1, Len(d) - 1)) + d[Len(d)]

\* parseInt: the value of the longest leading run of digits; NaN when empty
IsNaNStr(s) == DigitPrefix(s) = <<>>
ParseInt(s) == DigitsValue(DigitPrefix(s))

\* a JS value that is a number, NaN or undefined, where it is kept in a header
\* or handed to the data layer
Num(n) == [t |-> "number", v |-> n]
NaN == [t |-> "NaN", v |-> 0]
undefined == [t |-> "undefined", v |-> 0]
\* obj[k] of a JS object whose k is a number when present
Get(obj, k) == IF k \in DOMAIN obj THEN Num(obj[k]) ELSE undefined

Min(a, b) == IF a < b THEN a ELSE b
Ceil(a, b) == (a + b - 1) \div b

\* new URLSearchParams({size, page}): entries in insertion order, values as strings
SizePageParams(size, page) == << <<"size", ToStr(size)>>, <<"page", ToStr(page)>> >>
SizeBeforeParams(size, before) == << <<"size", ToStr(size)>>, <<"before", before>> >>

Rel(name, url, params) == [rel |-> name, url |-> url, query |-> params]

\* searchParams of a URL whose query string is params: get(k) is the first value of k
RECURSIVE FirstValue(_, _)
FirstValue(params, k) ==
  IF Head(params)[1] = k THEN Head(params)[2] ELSE FirstValue(Tail(params), k)
SearchParams(params) ==
  [k \in {params[i][1] : i \in 1..Len(params)} |-> FirstValue(params, k)]

(* ------------------------------ items ---------------------------------- *)
\* an upload or pin request row: `created` is its timestamp as a string
Item(i, t) == [id |-> i, created |-> ToStr(t)]
Created(item) == ParseInt(item.created)

Times == 1..MaxTime
ItemsOf(ts) == [i \in 1..Len(ts) |-> Item(i, ts[i])]
TimeSeqs(n) == UNION {[1..k -> Times] : k \in 0..n}
\* what a listing can hold: rows ordered newest first (equal timestamps allowed)
Sorted(ts) == \A i \in 1..(Len(ts) - 1) : ts[i] >= ts[i + 1]
Collections == {ItemsOf(ts) : ts \in {x \in TimeSeqs(MaxItems) : Sorted(x)}}

(* --------------------------- getLinkHeader ----------------------------- *)
\* variant: the cursor is taken from the first item of the page
CursorNext_first(url, size, items) ==
  IF Len(items) = size
  THEN <<Rel("next", url, SizeBeforeParams(size, items[1].created))>>
  ELSE <<>>

\* variant: a next relation whenever the page holds any item
CursorNext_nonempty(url, size, items) ==
  IF Len(items) > 0
  THEN <<Rel("next", url, SizeBeforeParams(size, items[Len(items)].created))>>
  ELSE <<>>

CursorNext(url, size, items) ==
  IF Len(items) = size
  THEN LET oldest == items[Len(items)]
       IN  <<Rel("next", url, SizeBeforeParams(size, oldest.created))>>
  ELSE <<>>

\* variant: Math.floor in place of Math.ceil
OffsetPages_floor(count, size) == count \div size

\* variant: an empty listing counted as one page
OffsetPages_atLeastOne(count, size) == IF count = 0 THEN 1 ELSE Ceil(count, size)

OffsetPages(count, size) == Ceil(count, size)

\* variant: page <= pages in place of page < pages
OffsetNext_le(url, size, page, pages) ==
  IF page <= pages THEN <<Rel("next", url, SizePageParams(size, page + 1))>> ELSE <<>>

\* variant: the next relation names the current page
OffsetNext_samePage(url, size, page, pages) ==
  IF page < pages THEN <<Rel("next", url, SizePageParams(size, page))>> ELSE <<>>

OffsetNext(url, size, page, pages) ==
  IF page < pages THEN <<Rel("next", url, SizePageParams(size, page + 1))>> ELSE <<>>

OffsetLast(url, size, pages) == <<Rel("last", url, SizePageParams(size, pages))>>

OffsetFirst(url, size) == <<Rel("first", url, SizePageParams(size, 1))>>

\* variant: page >= 1 in place of page > 1
OffsetPrevious_ge(url, size, page) ==
  IF page >= 1 THEN <<Rel("previous", url, SizePageParams(size, page - 1))>> ELSE <<>>

OffsetPrevious(url, size, page) ==
  IF page > 1 THEN <<Rel("previous", url, SizePageParams(size, page - 1))>> ELSE <<>>

UnknownPageRequestType == [name |-> "Error", message |-> "unknown page request type"]

\* the relations in the order they are pushed; rels.join(', ') is their sequence
getLinkHeader(url, pageRequest, items, count) ==
  IF "before" \in DOMAIN pageRequest
  THEN [threw |-> FALSE, rels |-> CursorNext(url, pageRequest.size, items)]
  ELSE IF "page" \in DOMAIN pageRequest
  THEN LET size == pageRequest.size
           page == pageRequest.page
           pages == OffsetPages(count, size)
       IN  [threw |-> FALSE,
            rels |-> OffsetNext(url, size, page, pages) \o OffsetLast(url, size, pages)
                       \o OffsetFirst(url, size) \o OffsetPrevious(url, size, page)]
  ELSE [threw |-> TRUE, error |-> UnknownPageRequestType]

(* ----------------- getLinkHeader as a function of its inputs ----------- *)
UploadsPath == "/user/uploads"
PinsPath == "/user/pins"

OffsetRequests == [size : 1..MaxSize, page : 1..(MaxPage + 1)]
CursorRequests == [size : 1..MaxSize, before : {ToStr(t) : t \in {MaxTime, MaxTime + 1}}]
SizeOnlyRequests == [size : {1}]

LinkInputs ==
     [pageRequest : OffsetRequests,
      items : {ItemsOf(ts) : ts \in TimeSeqs(1)},
      count : 0..(MaxItems + 2)]
  \cup [pageRequest : CursorRequests,
        items : {ItemsOf(ts) : ts \in TimeSeqs(MaxSize)},
        count : {undefined}]
  \cup [pageRequest : CursorRequests,
        items : {ItemsOf(ts) : ts \in TimeSeqs(MaxSize)},
        count : 0..(MaxItems + 2)]
  \cup [pageRequest : SizeOnlyRequests, items : {<<>>}, count : {0}]

NotCalled == [threw |-> FALSE, rels |-> <<>>, called |-> FALSE]
\* no login request in flight
NoLogin == [pc |-> "none"]

Idle ==
  /\ collection = <<>>
  /\ route = "none"
  /\ start = <<>>
  /\ query = <<>>
  /\ pc = "idle"
  /\ response = [kind |-> "none"]
  /\ dbResult = [called |-> FALSE]
  /\ seen = <<>>
  /\ requests = 0

LinkInit ==
  /\ Idle
  /\ lhArgs \in LinkInputs
  /\ lhOut = NotCalled
  /\ login = NoLogin

CallGetLinkHeader ==
  /\ lhOut = NotCalled
  /\ lhOut' = getLinkHeader(UploadsPath, lhArgs.pageRequest, lhArgs.items, lhArgs.count)
  /\ UNCHANGED <<collection, route, start, query, pc, response, dbResult, seen,
                 requests, lhArgs, login>>

LinkNext == CallGetLinkHeader

LinkSpec == LinkInit /\ [][LinkNext]_vars

(* ------------------------- page request parser ------------------------- *)
DefaultSize == 25
InvalidParameterError == [name |-> "InvalidParameterError", status |-> 400]

Numeric(sp, k) == k \in DOMAIN sp /\ ~IsNaNStr(sp[k])

\* before present: Cursor, else Offset; size and page default when absent or
\* non-numeric; a numeric size that is not positive is rejected
pagination(searchParams) ==
  LET size == IF Numeric(searchParams, "size")
              THEN ParseInt(searchParams["size"]) ELSE DefaultSize
      page == IF Numeric(searchParams, "page") /\ ParseInt(searchParams["page"]) >= 1
              THEN ParseInt(searchParams["page"]) ELSE 1
  IN  IF size <= 0
      THEN [threw |-> TRUE, error |-> InvalidParameterError]
      ELSE IF "before" \in DOMAIN searchParams
      THEN [threw |-> FALSE,
            pageRequest |-> [size |-> size, before |-> searchParams["before"]]]
      ELSE [threw |-> FALSE, pageRequest |-> [size |-> size, page |-> page]]

(* ------------------------------ data layer ----------------------------- *)
RangeNotSatisfiableDb == [name |-> "DBError", code |-> "RANGE_NOT_SATISFIABLE_ERROR_DB"]
OtherDbErrors ==
  {[name |-> "DBError", code |-> "DB_SELECT_ERROR"],
   [name |-> "TypeError"]}

Failed(err) == [called |-> TRUE, ok |-> FALSE, err |-> err]
Returned(data) == [called |-> TRUE, ok |-> TRUE, data |-> data]

\* rows skip+1 .. skip+limit of rows
Slice(rows, skip, limit) == SubSeq(rows, skip + 1, Min(skip + limit, Len(rows)))
Before(rows, before) == SelectSeq(rows, LAMBDA r : Created(r) < ParseInt(before))

\* the outcomes of listPage(ownerId, pageRequest) over the rows of the owner
listPage(rows, pageRequest) ==
  {Failed(e) : e \in OtherDbErrors} \cup
  IF "before" \in DOMAIN pageRequest
  THEN LET items == Slice(Before(rows, pageRequest.before), 0, pageRequest.size)
       IN  {Returned([items |-> items]),
            Returned([items |-> items, count |-> Len(Before(rows, pageRequest.before))])}
  ELSE LET skip == (pageRequest.page - 1) * pageRequest.size
       IN  IF skip > 0 /\ skip >= Len(rows)
           THEN {Failed(RangeNotSatisfiableDb)}
           ELSE {Returned([items |-> Slice(rows, skip, pageRequest.size),
                           count |-> Len(rows)])}

(* -------------------------------- routes ------------------------------- *)
RangeNotSatisfiableError == [name |-> "RangeNotSatisfiableError", status |-> 416]

Throw(err) == [kind |-> "throw", error |-> err]
JSONResponse(body, headers) == [kind |-> "ok", body |-> body, headers |-> headers]

\* headers = { Count }, then Size and Page when the page request has them
Headers(pageRequest, data) ==
  LET h0 == [k \in {"Count"} |-> Get(data, "count")]
      h1 == IF "size" \in DOMAIN pageRequest
            THEN [k \in DOMAIN h0 \cup {"Size"} |->
                    IF k = "Size" THEN Num(pageRequest.size) ELSE h0[k]]
            ELSE h0
      h2 == IF "page" \in DOMAIN pageRequest
            THEN [k \in DOMAIN h1 \cup {"Page"} |->
                    IF k = "Page" THEN Num(pageRequest.page) ELSE h1[k]]
            ELSE h1
  IN  h2

\* headers.Link = link, only when link is not the empty string
WithLink(headers, rels) ==
  IF rels # <<>>
  THEN [k \in DOMAIN headers \cup {"Link"} |-> IF k = "Link" THEN rels ELSE headers[k]]
  ELSE headers

\* variant: every data-layer failure reported as range not satisfiable
Rethrow_always416(err) == Throw(RangeNotSatisfiableError)

\* a data-layer failure inside the try block of a listing route
Rethrow(err) ==
  IF "code" \in DOMAIN err /\ err.code = "RANGE_NOT_SATISFIABLE_ERROR_DB"
  THEN Throw(RangeNotSatisfiableError)
  ELSE Throw(err)

\* the response once the data layer has returned data = { items, count }
PageResponse(url, pageRequest, data, body) ==
  LET count == IF "count" \in DOMAIN data THEN data.count ELSE undefined
      link == getLinkHeader(url, pageRequest, data.items, count)
  IN  IF link.threw THEN Throw(link.error)
      ELSE JSONResponse(body, WithLink(Headers(pageRequest, data), link.rels))

(* ------------------------- requests of a client ------------------------ *)
ParamNames == {"size", "page", "before"}
ParamValues(k) ==
  IF k = "size" THEN {ToStr(n) : n \in 0..MaxSize} \cup {<<LetterX>>}
  ELSE IF k = "page" THEN {ToStr(n) : n \in 0..MaxPage} \cup {<<LetterX>>}
  ELSE {ToStr(t) : t \in 1..(MaxTime + 1)}
QueriesOver(K) ==
  {q \in [K -> UNION {ParamValues(k) : k \in ParamNames}] :
     \A k \in K : q[k] \in ParamValues(k)}
Queries == UNION {QueriesOver(K) : K \in SUBSET ParamNames}

Init ==
  /\ collection \in Collections
  /\ route \in {"uploads", "pins"}
  /\ query \in Queries
  /\ start = query
  /\ pc = "request"
  /\ response = [kind |-> "none"]
  /\ dbResult = [called |-> FALSE]
  /\ seen = <<>>
  /\ requests = 0
  /\ lhArgs = <<>>
  /\ lhOut = NotCalled
  /\ login = NoLogin

Handled(resp, db) ==
  /\ response' = resp
  /\ dbResult' = db
  /\ requests' = requests + 1
  /\ pc' = "response"
  /\ UNCHANGED <<collection, route, start, query, seen, lhArgs, lhOut, login>>

userUploadsGet ==
  /\ pc = "request"
  /\ route = "uploads"
  /\ requests < MaxRequests
  /\ LET parsed == pagination(query)
     IN  IF parsed.threw
         THEN Handled(Throw(parsed.error), [called |-> FALSE])
         ELSE \E out \in listPage(collection, parsed.pageRequest) :
                IF ~out.ok
                THEN Handled(Rethrow(out.err), out)
                ELSE Handled(PageResponse(UploadsPath, parsed.pageRequest,
                                          out.data, out.data.items), out)

\* pageRequest.size * (pageRequest.page - 1)
PinsOffset(pageRequest) ==
  IF "page" \in DOMAIN pageRequest
  THEN Num(pageRequest.size * (pageRequest.page - 1))
  ELSE NaN

\* { ...psaParams.data, limit, offset } handed to listPsaPinRequests
PinsOptions(pageRequest) ==
  [limit |-> pageRequest.size, offset |-> PinsOffset(pageRequest)]

\* the outcome of a data-layer call together with the options it was called with
WithOptions(out, opts) ==
  [k \in DOMAIN out \cup {"opts"} |-> IF k = "opts" THEN opts ELSE out[k]]

PsaParamsError == [name |-> "ErrorInvalidRequestParam", status |-> 400]

\* the outcomes of listPsaPinRequests(tokens, { limit, offset }); what the data
\* layer does with a NaN offset is not stated: it is taken to fail, or to read
\* from the first row
listPsaPinRequests(rows, limit, offset) ==
  {Failed(e) : e \in OtherDbErrors} \cup
  IF offset = NaN
  THEN {Returned([items |-> Slice(rows, 0, limit), count |-> Len(rows)])}
  ELSE IF offset.v > 0 /\ offset.v >= Len(rows)
  THEN {Failed(RangeNotSatisfiableDb)}
  ELSE {Returned([items |-> Slice(rows, offset.v, limit), count |-> Len(rows)])}

userPinsGet ==
  /\ pc = "request"
  /\ route = "pins"
  /\ requests < MaxRequests
  /\ LET parsed == pagination(query)
     IN  IF parsed.threw
         THEN Handled(Throw(parsed.error), [called |-> FALSE])
         ELSE \/ Handled(Throw(PsaParamsError), [called |-> FALSE])
              \/ \E e \in OtherDbErrors : Handled(Throw(e), [called |-> FALSE])
              \/ LET opts == PinsOptions(parsed.pageRequest)
                 IN  \E out \in listPsaPinRequests(collection, opts.limit, opts.offset) :
                       IF ~out.ok
                       THEN Handled(Rethrow(out.err), WithOptions(out, opts))
                       ELSE Handled(PageResponse(PinsPath, parsed.pageRequest, out.data,
                                                 [count |-> out.data.count,
                                                  results |-> out.data.items]),
                                    WithOptions(out, opts))

\* the next relation of a response, as a sequence of zero or one relations
NextRels(resp) ==
  IF resp.kind = "ok" /\ "Link" \in DOMAIN resp.headers
  THEN SelectSeq(resp.headers["Link"], LAMBDA r : r.rel = "next")
  ELSE <<>>

Ids(items) == [i \in 1..Len(items) |-> items[i].id]
Received(resp) ==
  IF resp.kind = "ok" /\ route = "uploads" THEN seen \o Ids(resp.body) ELSE seen

\* the client requests the URL of the next relation of the response it holds
ClientFollowNext ==
  /\ pc = "response"
  /\ route = "uploads"
  /\ NextRels(response) # <<>>
  /\ query' = SearchParams(NextRels(response)[1].query)
  /\ seen' = Received(response)
  /\ pc' = "request"
  /\ UNCHANGED <<collection, route, start, response, dbResult, requests, lhArgs, lhOut,
                 login>>

ClientStop ==
  /\ pc = "response"
  /\ route = "pins" \/ NextRels(response) = <<>>
  /\ seen' = Received(response)
  /\ pc' = "done"
  /\ UNCHANGED <<collection, route, start, query, response, dbResult, requests,
                 lhArgs, lhOut, login>>

Next == userUploadsGet \/ userPinsGet \/ ClientFollowNext \/ ClientStop

Spec == Init /\ [][Next]_vars

FairSpec == Spec /\ WF_vars(Next)

(* ------------------ properties of the Link header builder -------------- *)
LhCalled == lhOut # NotCalled
LhOffset == "page" \in DOMAIN lhArgs.pageRequest /\ "before" \notin DOMAIN lhArgs.pageRequest
LhCursor == "before" \in DOMAIN lhArgs.pageRequest
LhRels(name) == SelectSeq(lhOut.rels, LAMBDA r : r.rel = name)

\* ceil(count / size): the least n with n * size >= count
TotalPages(count, size) == CHOOSE n \in 0..count : n * size >= count /\ \A m \in 0..(n - 1) : m * size < count

\* the URL of r carries size and page
CarriesPage(r, size, page) ==
  /\ DOMAIN SearchParams(r.query) = {"size", "page"}
  /\ SearchParams(r.query)["size"] = ToStr(size)
  /\ SearchParams(r.query)["page"] = ToStr(page)

\* the URL of r carries size and before
CarriesBefore(r, size, before) ==
  /\ DOMAIN SearchParams(r.query) = {"size", "before"}
  /\ SearchParams(r.query)["size"] = ToStr(size)
  /\ SearchParams(r.query)["before"] = before

\* C2: in Offset mode a next relation is emitted iff page < ceil(count / size),
\* and it then carries the same size and page + 1
C2_OffsetNextIffBeforeLastPage ==
  (LhCalled /\ LhOffset) =>
    LET pr == lhArgs.pageRequest
        totalPages == TotalPages(lhArgs.count, pr.size)
    IN  /\ ~lhOut.threw
        /\ Len(LhRels("next")) = (IF pr.page < totalPages THEN 1 ELSE 0)
        /\ \A i \in 1..Len(LhRels("next")) : CarriesPage(LhRels("next")[i], pr.size, pr.page + 1)

C2_Witness ==
  /\ LhCalled /\ LhOffset
  /\ lhArgs.pageRequest.page = 2
  /\ lhArgs.pageRequest.size = 2
  /\ lhArgs.count = 5
  /\ Len(LhRels("next")) = 1

\* C3: in Offset mode a previous relation is emitted iff page > 1, whatever the
\* count, and it then carries the same size and page - 1
C3_OffsetPreviousIffNotFirstPage ==
  (LhCalled /\ LhOffset) =>
    LET pr == lhArgs.pageRequest
    IN  /\ ~lhOut.threw
        /\ Len(LhRels("previous")) = (IF pr.page > 1 THEN 1 ELSE 0)
        /\ \A i \in 1..Len(LhRels("previous")) :
             CarriesPage(LhRels("previous")[i], pr.size, pr.page - 1)

C3_Witness ==
  /\ LhCalled /\ LhOffset
  /\ lhArgs.pageRequest.page > TotalPages(lhArgs.count, lhArgs.pageRequest.size)
  /\ lhArgs.count > 0
  /\ Len(LhRels("previous")) = 1

\* C4: in Offset mode exactly one last relation (page = ceil(count / size)) and
\* exactly one first relation (page = 1) are emitted, both with the request's size
C4_OffsetLastAndFirstAlways ==
  (LhCalled /\ LhOffset) =>
    LET pr == lhArgs.pageRequest
    IN  /\ ~lhOut.threw
        /\ Len(LhRels("last")) = 1
        /\ CarriesPage(LhRels("last")[1], pr.size, TotalPages(lhArgs.count, pr.size))
        /\ Len(LhRels("first")) = 1
        /\ CarriesPage(LhRels("first")[1], pr.size, 1)

C4_Witness ==
  /\ LhCalled /\ LhOffset
  /\ lhArgs.count = 5
  /\ lhArgs.pageRequest.size = 2
  /\ lhArgs.pageRequest.page = 4
  /\ CarriesPage(LhRels("last")[1], 2, 3)

\* C5: in Cursor mode a full page (items.length = size) yields a next relation
\* carrying the same size and before = created of the last item returned
C5_CursorNextOnFullPage ==
  (LhCalled /\ LhCursor /\ Len(lhArgs.items) = lhArgs.pageRequest.size) =>
    /\ ~lhOut.threw
    /\ Len(LhRels("next")) = 1
    /\ CarriesBefore(LhRels("next")[1], lhArgs.pageRequest.size,
                     lhArgs.items[Len(lhArgs.items)].created)

C5_Witness ==
  /\ LhCalled /\ LhCursor
  /\ Len(lhArgs.items) = lhArgs.pageRequest.size
  /\ Len(lhArgs.items) >= 2
  /\ Created(lhArgs.items[1]) > Created(lhArgs.items[Len(lhArgs.items)])
  /\ Len(LhRels("next")) = 1

\* C6: in Cursor mode no previous, first or last relation is ever emitted, and a
\* page shorter than size yields no relation at all
C6_CursorForwardOnly ==
  (LhCalled /\ LhCursor) =>
    /\ ~lhOut.threw
    /\ \A i \in 1..Len(lhOut.rels) : lhOut.rels[i].rel = "next"
    /\ Len(lhArgs.items) < lhArgs.pageRequest.size => lhOut.rels = <<>>

C6_Witness ==
  /\ LhCalled /\ LhCursor
  /\ Len(lhArgs.items) > 0
  /\ Len(lhArgs.items) < lhArgs.pageRequest.size
  /\ lhOut.rels = <<>>

\* C9: in Offset mode with count = 0 the last relation names page 0, the first
\* relation names page 1 and there is no next relation
C9_OffsetEmptyCollection ==
  (LhCalled /\ LhOffset /\ lhArgs.count = 0) =>
    LET pr == lhArgs.pageRequest
    IN  /\ ~lhOut.threw
        /\ LhRels("next") = <<>>
        /\ LhRels("last") = <<Rel("last", UploadsPath, <<<<"size", ToStr(pr.size)>>, <<"page", <<0>>>>>>)>>
        /\ LhRels("first") = <<Rel("first", UploadsPath, <<<<"size", ToStr(pr.size)>>, <<"page", <<1>>>>>>)>>

C9_Witness ==
  /\ LhCalled /\ LhOffset
  /\ lhArgs.count = 0
  /\ lhArgs.pageRequest.page > 1
  /\ Len(LhRels("last")) = 1

(* ------------------------ properties of the routes --------------------- *)
StartRequest == pagination(start).pageRequest
StartValid == route = "uploads" /\ ~pagination(start).threw
StartOffset == StartValid /\ "page" \in DOMAIN StartRequest
StartCursor == StartValid /\ "before" \in DOMAIN StartRequest

\* the items a traversal from the first request is to deliver, in order
Scope ==
  IF StartCursor THEN Ids(Before(collection, StartRequest.before))
  ELSE Ids(Slice(collection, (StartRequest.page - 1) * StartRequest.size, Len(collection)))

NoItemTwice == \A i, j \in 1..Len(seen) : seen[i] = seen[j] => i = j
NoItemSkipped == Len(seen) <= Len(Scope) /\ \A i \in 1..Len(seen) : seen[i] = Scope[i]
Finished == pc = "done" /\ response.kind = "ok"

\* C1: following next over a fixed collection visits every item once, in both
\* modes: the pages so far repeat nothing and skip nothing, and a finished
\* traversal has delivered every item
C1_RoundTripNoOverlapNoSkip ==
  StartValid =>
    /\ NoItemTwice
    /\ NoItemSkipped
    /\ Finished => seen = Scope

\* the same for Offset requests only
C1_OffsetRoundTrip ==
  StartOffset => (NoItemTwice /\ NoItemSkipped /\ (Finished => seen = Scope))

\* the same for Cursor requests over items with pairwise distinct timestamps
DistinctCreated ==
  \A i, j \in 1..Len(collection) :
    collection[i].created = collection[j].created => i = j
C1_CursorRoundTripDistinct ==
  (StartCursor /\ DistinctCreated) =>
    (NoItemTwice /\ NoItemSkipped /\ (Finished => seen = Scope))

\* C7: a data-layer failure of a listing route is thrown, as
\* RangeNotSatisfiableError for the range code and unchanged otherwise
C7_DataLayerFailureSurfaced ==
  (dbResult.called /\ ~dbResult.ok) =>
    /\ response.kind = "throw"
    /\ IF dbResult.err = RangeNotSatisfiableDb
       THEN response.error = RangeNotSatisfiableError
       ELSE response.error = dbResult.err

C7_Witness ==
  /\ route = "pins"
  /\ dbResult.called /\ ~dbResult.ok
  /\ dbResult.err \in OtherDbErrors
  /\ response = Throw(dbResult.err)

\* C8: the uploads response carries Size = requested size, Page = requested page
\* in Offset mode only, and Count = the data layer's count, with no Count header
\* when the data layer computed none
C8_UploadsHeaders ==
  (pc = "response" /\ route = "uploads" /\ response.kind = "ok") =>
    LET pr == pagination(query).pageRequest
        h == response.headers
    IN  /\ "Size" \in DOMAIN h /\ h["Size"] = Num(pr.size)
        /\ IF "page" \in DOMAIN pr
           THEN "Page" \in DOMAIN h /\ h["Page"] = Num(pr.page)
           ELSE "Page" \notin DOMAIN h
        /\ IF "count" \in DOMAIN dbResult.data
           THEN "Count" \in DOMAIN h /\ h["Count"] = Num(dbResult.data.count)
           ELSE "Count" \notin DOMAIN h

\* C10: the client stops after finitely many requests; every next URL it follows
\* in Offset mode names a page in 1..totalPages and is never answered with range
\* not satisfiable; from page 1 of a non-empty collection a finished traversal
\* took ceil(count / size) requests
FollowedPageInRange ==
  (route = "uploads" /\ pc = "request" /\ requests > 0
     /\ "page" \in DOMAIN pagination(query).pageRequest) =>
    LET pr == pagination(query).pageRequest
    IN  /\ SearchParams(NextRels(response)[1].query)["page"] = ToStr(pr.page)
        /\ pr.page \in 1..TotalPages(Len(collection), pr.size)
RangeErrorOnlyAtStart ==
  (route = "uploads" /\ dbResult.called /\ ~dbResult.ok
     /\ dbResult.err = RangeNotSatisfiableDb) => requests = 1
RequestsBounded == requests <= Len(collection) + 1
ExactRequestCount ==
  (StartOffset /\ Finished /\ StartRequest.page = 1 /\ Len(collection) > 0) =>
    requests = TotalPages(Len(collection), StartRequest.size)
C10_TraversalTerminates ==
  /\ <>(pc = "done")
  /\ [](FollowedPageInRange /\ RangeErrorOnlyAtStart /\ RequestsBounded /\ ExactRequestCount)

C10_Witness ==
  /\ StartOffset /\ Finished
  /\ StartRequest.page = 1
  /\ StartRequest.size = 1
  /\ Len(collection) = 3
  /\ requests = 3

\* C11: userPinsGet queries the data layer with limit = size and an offset that
\* is a non-negative integer, size * (page - 1), for Offset and Cursor requests
C11_PinsQueryWellDefined ==
  (route = "pins" /\ dbResult.called) =>
    LET pr == pagination(query).pageRequest
        opts == dbResult.opts
    IN  /\ opts.limit = pr.size
        /\ opts.offset.t = "number"
        /\ opts.offset.v >= 0
        /\ "page" \in DOMAIN pr => opts.offset = Num(pr.size * (pr.page - 1))

\* the same for Offset requests only
C11_PinsQueryOffsetMode ==
  (route = "pins" /\ dbResult.called /\ "page" \in DOMAIN pagination(query).pageRequest) =>
    LET pr == pagination(query).pageRequest
    IN  dbResult.opts = [limit |-> pr.size, offset |-> Num(pr.size * (pr.page - 1))]

(* -------------------------------- login -------------------------------- *)
NO_READ_OR_WRITE == "--"
READ_WRITE == "rw"
READ_ONLY == "r-"
\* values of env.MODE: the three maintenance modes and two that are none of them
Modes == {NO_READ_OR_WRITE, READ_WRITE, READ_ONLY, "-w", "unset"}

TestModeEmail == "testMode@magic.link"
Emails == {"", "ada@example.org"}
Issuers == {"", "did:ethr:0xA"}
Addresses == {"", "0xA"}
Falsy(str) == str = ""

\* email.split('@')[0]
LocalPart(email) ==
  IF email = "ada@example.org" THEN "ada"
  ELSE IF email = TestModeEmail THEN "testMode"
  ELSE email

\* what a login request and its environment are made of
LoginInputs ==
  [mode : Modes,
   bodyOk : BOOLEAN,
   type : {"github", "magic"},
   headerOk : BOOLEAN,
   bypass : BOOLEAN,
   tokenValid : BOOLEAN,
   metadata : [issuer : Issuers, email : Emails, publicAddress : Addresses]]

NoMetadata == [issuer |-> "", email |-> "", publicAddress |-> ""]
NoUser == [defined |-> FALSE, issuer |-> ""]
User(issuer) == [defined |-> TRUE, issuer |-> issuer]
\* what maintenanceHandler() returns when it returns: an object without issuer
MaintenanceResponse == [defined |-> TRUE, issuer |-> ""]

createTestmodeMetadata(issuer) ==
  [issuer |-> issuer, email |-> TestModeEmail, publicAddress |-> issuer]

parseGitHub(metadata) ==
  [name |-> "", picture |-> "", issuer |-> metadata.issuer, email |-> metadata.email,
   github |-> "handle", publicAddress |-> metadata.publicAddress]

parseMagic(metadata) ==
  [name |-> LocalPart(metadata.email), picture |-> "", issuer |-> metadata.issuer,
   email |-> metadata.email, publicAddress |-> metadata.publicAddress]

LoginError(message) == [name |-> "Error", message |-> message]

LoginInit ==
  /\ Idle
  /\ lhArgs = <<>>
  /\ lhOut = NotCalled
  /\ \E in \in LoginInputs :
       login = [pc |-> "start", in |-> in, metadata |-> NoMetadata, calls |-> <<>>,
                user |-> NoUser, result |-> [kind |-> "none"]]

LoginUnchanged ==
  UNCHANGED <<collection, route, start, query, pc, response, dbResult, seen,
              requests, lhArgs, lhOut>>

LoginThrows(calls, err) ==
  login' = [login EXCEPT !.pc = "done", !.calls = calls, !.result = Throw(err)]

\* loginOrRegister up to the check of the metadata
LoginAuthenticate ==
  /\ login.pc = "start"
  /\ LET in == login.in
     IN  IF ~in.bodyOk THEN LoginThrows(<<>>, [name |-> "SyntaxError"])
         ELSE IF ~in.headerOk THEN LoginThrows(<<>>, LoginError("Malformed authorization header"))
         ELSE LET calls == IF in.bypass THEN <<"authenticateMagicToken">>
                           ELSE IF in.tokenValid THEN <<"validate", "getMetadataByToken">>
                           ELSE <<"validate">>
                  metadata == IF in.bypass THEN createTestmodeMetadata(in.metadata.issuer)
                              ELSE in.metadata
              IN  IF ~in.bypass /\ ~in.tokenValid
                  THEN LoginThrows(calls, LoginError("Incorrect token"))
                  ELSE IF Falsy(metadata.issuer) \/ Falsy(metadata.email)
                          \/ Falsy(metadata.publicAddress)
                  THEN LoginThrows(calls, LoginError("missing required metadata"))
                  ELSE login' = [login EXCEPT !.pc = "authenticated", !.calls = calls,
                                              !.metadata = metadata]
  /\ LoginUnchanged

\* variant: a read-only deployment still upserts the user
DbOperation_readOnlyUpserts(mode) ==
  IF mode = NO_READ_OR_WRITE THEN "maintenanceHandler"
  ELSE IF mode = READ_WRITE THEN "upsertUser"
  ELSE IF mode = READ_ONLY THEN "upsertUser"
  ELSE "throw"

\* the branch of the maintenance-mode check
DbOperation(mode) ==
  IF mode = NO_READ_OR_WRITE THEN "maintenanceHandler"
  ELSE IF mode = READ_WRITE THEN "upsertUser"
  ELSE IF mode = READ_ONLY THEN "getUser"
  ELSE "throw"

LoginReturns(calls, user) ==
  login' = [login EXCEPT !.pc = "returned", !.calls = calls, !.user = user]

\* loginOrRegister from the parse of the metadata to its return
LoginMaintenanceMode ==
  /\ login.pc = "authenticated"
  /\ LET parsed == IF login.in.type = "github"
                   THEN parseGitHub(login.metadata) ELSE parseMagic(login.metadata)
         op == DbOperation(login.in.mode)
     IN  IF op = "maintenanceHandler"
         THEN \/ LoginThrows(login.calls, [name |-> "MaintenanceError"])
              \/ LoginReturns(login.calls, MaintenanceResponse)
         ELSE IF op = "upsertUser"
         THEN \/ LoginReturns(Append(login.calls, "upsertUser"), User(parsed.issuer))
              \/ LoginThrows(Append(login.calls, "upsertUser"), [name |-> "DBError"])
         ELSE IF op = "getUser"
         THEN \/ LoginReturns(Append(login.calls, "getUser"), User(parsed.issuer))
              \/ LoginReturns(Append(login.calls, "getUser"), NoUser)
              \/ LoginThrows(Append(login.calls, "getUser"), [name |-> "DBError"])
         ELSE LoginThrows(login.calls, LoginError("Unknown maintenance mode"))
  /\ LoginUnchanged

\* userLoginPost once loginOrRegister has returned: { issuer: user.issuer }
userLoginPost ==
  /\ login.pc = "returned"
  /\ IF login.user.defined
     THEN login' = [login EXCEPT !.pc = "done",
                                 !.result = JSONResponse([issuer |-> login.user.issuer], <<>>)]
     ELSE LoginThrows(login.calls, [name |-> "TypeError"])
  /\ LoginUnchanged

LoginNext == LoginAuthenticate \/ LoginMaintenanceMode \/ userLoginPost

LoginSpec == LoginInit /\ [][LoginNext]_vars

DbCalls == SelectSeq(login.calls, LAMBDA c : c \in {"upsertUser", "getUser"})

\* C12: a login upserts the user only in READ_WRITE mode, only reads it in
\* READ_ONLY mode, touches no database in NO_READ_OR_WRITE mode, fails without a
\* database operation under any other mode, and in every mode touches the
\* database only after the token is authenticated and the metadata is complete
C12_LoginDatabaseAccessByMode ==
  LET mode == login.in.mode
      in == login.in
  IN  /\ Len(DbCalls) <= 1
      /\ mode # READ_WRITE => DbCalls # <<"upsertUser">>
      /\ mode = READ_ONLY => DbCalls \in {<<>>, <<"getUser">>}
      /\ mode = NO_READ_OR_WRITE => DbCalls = <<>>
      /\ mode \notin {READ_WRITE, READ_ONLY, NO_READ_OR_WRITE} =>
           /\ DbCalls = <<>>
           /\ login.pc \notin {"start", "authenticated"} => login.result.kind = "throw"
      /\ DbCalls # <<>> =>
           /\ in.bodyOk /\ in.headerOk
           /\ in.bypass \/ in.tokenValid
           /\ ~Falsy(in.metadata.issuer)
           /\ in.bypass \/ (~Falsy(in.metadata.email) /\ ~Falsy(in.metadata.publicAddress))
           /\ login.calls[1] \in {"authenticateMagicToken", "validate"}
           /\ login.calls[Len(login.calls)] \in {"upsertUser", "getUser"}

C12_Witness ==
  /\ login.pc = "done"
  /\ login.in.mode = READ_ONLY
  /\ ~login.in.bypass
  /\ login.calls = <<"validate", "getMetadataByToken", "getUser">>
  /\ login.result.kind = "ok"

====
